---- MODULE Spec2Model ----
(***************************************************************************)
(* Pinia devtools bridge (src/unnamed/part_000) and map helpers            *)
(* (src/src/mapHelpers.ts) as state machines.                              *)
(*                                                                         *)
(* The module-level variables of the source are the program state; every   *)
(* handler the bridge registers with the devtools host, every store        *)
(* notification callback and the action wrapper of devtoolsPlugin is an    *)
(* action.  Strings whose characters matter (store ids, component state    *)
(* types) are sequences of one-character strings.                          *)
(***************************************************************************)
EXTENDS Integers, Sequences, FiniteSets, Bags, TLC

\* ------------------------------------------------------------------ bounds
MaxCalls == 2
MaxSubs == 2
MaxTimeline == 3
\* store objects the factories make
MaxMade == 2

\* --------------------------------------------------------------- constants
Undefined == "undefined"
\* activeAction is `number | undefined`; NoAction stands for undefined
NoAction == -1
\* the one-character emblem U+1F34D of the messages and state types
Pineapple == "pineapple"

MUTATIONS_LAYER_ID == "pinia:mutations"
INSPECTOR_ID == "pinia"

Apps == {"app1", "app2"}
InspectorIds == {INSPECTOR_ID, "router"}

\* Store instances.  Instances 1 and 2 are two stores created under the same
\* id (the case the TODO of addDevtools describes), instance 3 has its own id.
Stores == 1 .. 3
StoreId(s) == IF s = 3 THEN <<"b">> ELSE <<"F", "o">>
StoreIds == {StoreId(s) : s \in Stores}
\* the app of the pinia a store belongs to: the app of its plugin context
AppOf(s) == IF s = 3 THEN "app2" ELSE "app1"
\* node ids the host may ask for: the ids of the stores and one of no store
NodeIds == StoreIds \cup {<<"x">>}

Values == {0, 1}
\* the values the inspector sends
EditValues == {1}

\* A JavaScript value as a tree: a number, an object with properties, or
\* undefined.
NoProps == [x \in {} |-> 0]
Num(n) == [tag |-> "number", v |-> n, props |-> NoProps]
Obj(props) == [tag |-> "object", v |-> 0, props |-> props]
Undef == [tag |-> "undefined", v |-> 0, props |-> NoProps]

InitialState == Obj([k \in {"foo"} |-> Num(0)])
NewStore == Obj([k \in {"$state"} |-> InitialState])

\* edit paths the inspector sends
Paths == {<<"state", "foo">>, <<"options", "foo">>, <<>>}

MutationTypes == {"direct", "patch object", "patch function"}
ActionNames == {"inc"}

VARIABLES
    registeredStores,    \* Map<string, Store>: a function from ids to stores
    isAlreadyInstalled,  \* boolean | undefined (FALSE is undefined)
    isTimelineActive,
    runningActionId,
    activeAction,
    handlerApp,          \* the `app` the registered handlers closed over
    stores,              \* the store objects, as property trees
    wrapped,             \* stores built, their actions replaced by devtoolsPlugin
    onActionSubs,        \* per store: $onAction callbacks the bridge installed
    subscribeSubs,       \* per store: $subscribe callbacks the bridge installed
    timeline,            \* the events given to api.addTimelineEvent, in order
    stack,               \* invocations whose body is running, innermost last
    pending,             \* bag of invocations whose promise has not settled
    invCount,            \* action invocations so far
    firstAdded,          \* per id: the first store addDevtools was given
    last,                \* the last operation: its input and what it gave the host
    mapStoreSuffix,      \* mapHelpers.ts: the exported let mapStoreSuffix
    pStores,             \* per component instance: its _pStores cache
    made,                \* the store objects the factories have made, in order
    component,           \* the object the last map helper call returned
    mlast                \* the last map helper operation and its result

\* the state of the map helpers
mapVars == <<mapStoreSuffix, pStores, made, component, mlast>>

vars ==
    <<registeredStores, isAlreadyInstalled,
      isTimelineActive, runningActionId, activeAction, handlerApp, stores,
      wrapped, onActionSubs, subscribeSubs, timeline, stack, pending,
      invCount, firstAdded, last, mapVars>>

\* ----------------------------------------------------------------- helpers
Last(seq) == seq[Len(seq)]
Front(seq) == SubSeq(seq, 1, Len(seq) - 1)

\* obj[k] = v, creating the property when obj lacks it; a value that is no
\* object is left as it is (the assignment has no effect on a number)
SetProp(obj, k, val) ==
    IF obj.tag # "object" THEN obj
    ELSE Obj([x \in (DOMAIN obj.props) \cup {k} |->
                 IF x = k THEN val ELSE obj.props[x]])

GetProp(obj, k) ==
    IF obj.tag = "object" /\ k \in DOMAIN obj.props THEN obj.props[k] ELSE Undef

RECURSIVE set(_, _, _)
\* payload.set(target, path, value) of the devtools host: the deep setter
set(target, path, val) ==
    IF path = <<>> THEN target
    ELSE IF Len(path) = 1 THEN SetProp(target, path[1], val)
    ELSE LET p == GetProp(target, path[1])
             inner == IF p.tag = "object" THEN p ELSE Obj(NoProps)
         IN  SetProp(target, path[1], set(inner, Tail(path), val))

RECURSIVE get(_, _)
\* the value at a path of an object, Undef when there is none
get(target, path) ==
    IF path = <<>> THEN target ELSE get(GetProp(target, path[1]), Tail(path))

\* ------------------------------------------------------- messages, events
\* toastMessage(message, type): the report handed to the toast host, or to
\* the console when there is none; toastHost is what
\* typeof __VUE_DEVTOOLS_TOAST__ === 'function' gives at the call
toastMessage(message, type, toastHost) ==
    LET piniaMessage == [emblem |-> Pineapple, message |-> message]
    IN  IF toastHost
        THEN [channel |-> "toast", text |-> piniaMessage, type |-> type]
        ELSE IF type = "error"
        THEN [channel |-> "console.error", text |-> piniaMessage, type |-> type]
        ELSE IF type = "warning"
        THEN [channel |-> "console.warn", text |-> piniaMessage, type |-> type]
        ELSE [channel |-> "console.log", text |-> piniaMessage, type |-> type]

\* a call toastMessage(message, type), as the handlers make it
Toast(message, type) == [message |-> message, type |-> type]

NotFoundMessage(id) == [kind |-> "not found", id |-> id]
InvalidPathMessage(id) == [kind |-> "Invalid path", id |-> id]
InstalledMessage(id) == [kind |-> "store installed", id |-> id]

StartEvent(name, groupId) ==
    [layerId |-> MUTATIONS_LAYER_ID, title |-> <<"takeoff", name>>,
     subtitle |-> "start", logType |-> "default", groupId |-> groupId]

AfterEvent(name, groupId) ==
    [layerId |-> MUTATIONS_LAYER_ID, title |-> <<"landing", name>>,
     subtitle |-> "end", logType |-> "default", groupId |-> groupId]

ErrorEvent(name, groupId) ==
    [layerId |-> MUTATIONS_LAYER_ID, title |-> <<"boom", name>>,
     subtitle |-> "end", logType |-> "error", groupId |-> groupId]

\* the subtitle the $subscribe callback gives a mutation event
MutationSubtitle(type) ==
    IF type = "patch function" THEN "arrow"
    ELSE IF type = "patch object" THEN "puzzle"
    ELSE "set"

MutationEvent(type, groupId) ==
    [layerId |-> MUTATIONS_LAYER_ID, title |-> <<"mutation", type>>,
     subtitle |-> MutationSubtitle(type), logType |-> "default",
     groupId |-> groupId]

IsStart(e) == e.subtitle = "start"
IsEnd(e) == e.subtitle = "end"
IsMutation(e) == e.title[1] = "mutation"

\* ------------------------------------------------- the bridge's callbacks
\* What a chain of callbacks reads and writes: the module-level variables
\* they touch, the host calls they make and the group ids they closed over.
Ctx ==
    [timeline |-> timeline, activeAction |-> activeAction,
     runningActionId |-> runningActionId, calls |-> <<>>, hooks |-> <<>>,
     isTimelineActive |-> isTimelineActive]

\* the callback given to store.$onAction: takes a group id, emits "start"
OnActionCallback(ctx, name) ==
    LET groupId == ctx.runningActionId
    IN  [ctx EXCEPT !.runningActionId = @ + 1,
                    !.timeline = Append(@, StartEvent(name, groupId)),
                    !.hooks = Append(@, groupId)]

\* the callback given to after()
AfterCallback(tl, name, groupId) == Append(tl, AfterEvent(name, groupId))

\* the callback given to onError()
OnErrorCallback(tl, name, groupId) == Append(tl, ErrorEvent(name, groupId))

\* the callback given to store.$subscribe
SubscribeCallback(ctx, type) ==
    IF ~ctx.isTimelineActive THEN ctx
    ELSE [ctx EXCEPT
            !.calls = @ \o <<"notifyComponentUpdate", "sendInspectorState">>,
            !.timeline = Append(@, MutationEvent(type, ctx.activeAction)),
            !.activeAction = NoAction]

\* ------------------------------------------------ the store's notifications
RECURSIVE TriggerOnAction(_, _, _)
\* the store hands an invocation to each of its n $onAction callbacks
TriggerOnAction(n, ctx, name) ==
    IF n = 0 THEN ctx
    ELSE TriggerOnAction(n - 1, OnActionCallback(ctx, name), name)

RECURSIVE TriggerSubscribe(_, _, _)
\* the store hands a mutation to each of its n $subscribe callbacks
TriggerSubscribe(n, ctx, type) ==
    IF n = 0 THEN ctx
    ELSE TriggerSubscribe(n - 1, SubscribeCallback(ctx, type), type)

RECURSIVE TriggerAfter(_, _, _)
\* the store runs the after() callback of each hook of an invocation
TriggerAfter(tl, name, hooks) ==
    IF hooks = <<>> THEN tl
    ELSE TriggerAfter(AfterCallback(tl, name, Head(hooks)), name, Tail(hooks))

RECURSIVE TriggerOnError(_, _, _)
\* the store runs the onError() callback of each hook of an invocation
TriggerOnError(tl, name, hooks) ==
    IF hooks = <<>> THEN tl
    ELSE TriggerOnError(OnErrorCallback(tl, name, Head(hooks)), name,
                        Tail(hooks))

\* a write store[path] = val and the notification it causes: the callbacks
\* run during the write, and only when the state changes
WriteStore(ctx, s, path, val, type) ==
    LET after == set(stores[s], path, val)
        changed == get(after, <<"$state">>) # get(stores[s], <<"$state">>)
    IN  [store |-> after,
         ctx |-> IF changed THEN TriggerSubscribe(subscribeSubs[s], ctx, type)
                 ELSE ctx]

\* --------------------------------------------------------------- payloads
\* payload.rootNodes: unset, or the nodes a handler has put there (their
\* order, the one of the registry, is left out)
NoNodes == [set |-> FALSE, nodes |-> EmptyBag]
RootNodes(nodes) == [set |-> TRUE, nodes |-> nodes]

NoPayload ==
    [app |-> Undefined, inspectorId |-> Undefined, nodeId |-> <<>>,
     type |-> <<>>, path |-> <<>>, state |-> Undef, filter |-> <<>>,
     rootNodes |-> NoNodes]

EditValue(val) == Obj([k \in {"value"} |-> Num(val)])

\* What the last operation gave the host and got from it: for a request of
\* the host the handler's name, its store, the payload as the host sent it
\* (input) and as the handler left it, the api calls and the toastMessage
\* calls made; for a setup the app; for the application's own activity (an
\* action, a mutation) the api calls its callbacks made.
Op(op, arg, s, payload, calls, reports) ==
    [op |-> op, arg |-> arg, store |-> s, input |-> payload,
     payload |-> payload, calls |-> calls, reports |-> reports]

Activity(calls) ==
    [op |-> "activity", arg |-> Undefined, store |-> 0, input |-> NoPayload,
     payload |-> NoPayload, calls |-> calls, reports |-> <<>>]

Request(op, s, input, payload, calls, reports) ==
    [op |-> op, arg |-> Undefined, store |-> s, input |-> input,
     payload |-> payload, calls |-> calls, reports |-> reports]

\* ------------------------------------------------------------- addDevtools
\* registeredStores.has(id), and registeredStores.get(id) giving a store
HasStore(reg, id) == id \in DOMAIN reg

\* RegisterStore without the has() guard: a later store replaces the first
RegisterStoreOverwriting(reg, s) ==
    [id \in (DOMAIN reg) \cup {StoreId(s)} |->
        IF id = StoreId(s) THEN s ELSE reg[id]]

\* registeredStores after the registration step of addDevtools
RegisterStore(reg, s) ==
    IF HasStore(reg, StoreId(s)) THEN reg
    ELSE [id \in (DOMAIN reg) \cup {StoreId(s)} |->
             IF id = StoreId(s) THEN s ELSE reg[id]]

\* the history of addDevtools: per id, the first store it was given
Remember(first, s) ==
    IF StoreId(s) \in DOMAIN first THEN first
    ELSE [id \in (DOMAIN first) \cup {StoreId(s)} |->
             IF id = StoreId(s) THEN s ELSE first[id]]

\* the local hasSubscribed of addDevtools after the registration step
HasSubscribed(isNew) ==
    LET hasSubscribed == TRUE
    IN  IF isNew THEN TRUE ELSE hasSubscribed

\* what the setup callback registers the first time it runs
InstallCalls ==
    <<"addTimelineLayer", "addInspector", "on.inspectComponent",
      "on.getInspectorTree", "on.getInspectorState", "on.editInspectorState",
      "on.editComponentState">>

RefreshCalls == <<"sendInspectorTree", "sendInspectorState">>

\* addDevtools(app, store): the registration and the setup callback, which
\* the devtools host runs with its api
addDevtools(app, s) ==
    LET id == StoreId(s)
        isNew == ~HasStore(registeredStores, id)
        hasSubscribed == HasSubscribed(isNew)
        setupCalls == IF ~isAlreadyInstalled THEN InstallCalls
                      ELSE RefreshCalls
    IN  /\ onActionSubs[s] < MaxSubs
        /\ registeredStores' = RegisterStore(registeredStores, s)
        /\ isAlreadyInstalled' = TRUE
        /\ handlerApp' = IF ~isAlreadyInstalled THEN app ELSE handlerApp
        /\ onActionSubs' = IF hasSubscribed THEN onActionSubs
                           ELSE [onActionSubs EXCEPT ![s] = @ + 1]
        /\ subscribeSubs' = IF hasSubscribed THEN subscribeSubs
                            ELSE [subscribeSubs EXCEPT ![s] = @ + 1]
        /\ IF hasSubscribed
           THEN last' = Op("addDevtools", app, s, NoPayload, setupCalls, <<>>)
           ELSE last' = Op("addDevtools", app, s, NoPayload,
                           Append(setupCalls, "notifyComponentUpdate"),
                           <<Toast(InstalledMessage(id), Undefined)>>)
        /\ firstAdded' = Remember(firstAdded, s)

\* devtoolsPlugin({ app, store }): run once for a store when it is built;
\* replaces the store's actions by the tracking wrappers and calls addDevtools
DevtoolsPlugin(s) ==
    /\ stack = <<>>
    /\ s \notin wrapped
    /\ wrapped' = wrapped \cup {s}
    /\ addDevtools(AppOf(s), s)
    /\ UNCHANGED <<mapVars, isTimelineActive, runningActionId, activeAction, stores,
                   timeline, stack, pending, invCount>>

\* addDevtools(app, store) called again for a store that has been set up
AddDevtools(s) ==
    /\ stack = <<>>
    /\ s \in wrapped
    /\ addDevtools(AppOf(s), s)
    /\ UNCHANGED <<mapVars, isTimelineActive, runningActionId, activeAction, stores,
                   wrapped, timeline, stack, pending, invCount>>

\* ---------------------------------------------------- inspector handlers
\* the handlers exist once the setup callback has registered them, and the
\* host runs them between the tasks of the application
HandlersRegistered == isAlreadyInstalled /\ stack = <<>>

Addressed(payload) ==
    payload.app = handlerApp /\ payload.inspectorId = INSPECTOR_ID

\* ValidPath without the check
ValidPathUnchecked(path) == TRUE

\* path[0] !== 'state' is false
ValidPath(path) == Len(path) > 0 /\ path[1] = "state"

\* RewritePath without the assignment
RewritePathKept(path) == path

\* path[0] = '$state'
RewritePath(path) ==
    IF path = <<>> THEN <<"$state">> ELSE [path EXCEPT ![1] = "$state"]

\* isTimelineActive = false; payload.set(store, path, value);
\* isTimelineActive = true -- with the notifications the write causes
SetPaused(s, path, val) ==
    LET paused == [Ctx EXCEPT !.isTimelineActive = FALSE]
        w == WriteStore(paused, s, path, val, "direct")
    IN  /\ stores' = [stores EXCEPT ![s] = w.store]
        /\ timeline' = w.ctx.timeline
        /\ activeAction' = w.ctx.activeAction
        /\ isTimelineActive' = TRUE

\* String.prototype.toLowerCase, on the letters store ids and filters use
LowerCase(c) ==
    CASE c = "F" -> "f"
      [] c = "O" -> "o"
      [] c = "B" -> "b"
      [] c = "X" -> "x"
      [] OTHER -> c

\* toLowerCase without the conversion
ToLowerCaseKept(str) == str

ToLowerCase(str) == [i \in 1 .. Len(str) |-> LowerCase(str[i])]

\* String.prototype.includes
Includes(str, sub) ==
    \E i \in 0 .. Len(str) - Len(sub) :
       SubSeq(str, i + 1, i + Len(sub)) = sub

\* formatStoreForInspectorTree(store)
TreeNode(s) == [id |-> StoreId(s), label |-> StoreId(s)]

\* the stores the tree handler keeps: all of them when payload.filter is
\* falsy (unset or the empty string)
Filtered(found, filter) ==
    IF filter # <<>>
    THEN {s \in found :
             Includes(ToLowerCase(StoreId(s)), ToLowerCase(filter))}
    ELSE found

\* api.on.getInspectorTree
GetInspectorTree(req, filter) ==
    LET payload == [NoPayload EXCEPT !.app = req.app,
                                     !.inspectorId = req.inspectorId,
                                     !.filter = filter]
        found == {registeredStores[id] : id \in DOMAIN registeredStores}
        kept == Filtered(found, filter)
        nodes == SetToBag({TreeNode(s) : s \in kept})
    IN  /\ HandlersRegistered
        /\ IF ~Addressed(payload)
           THEN last' = Request("getInspectorTree", 0, payload, payload,
                                <<>>, <<>>)
           ELSE last' = Request("getInspectorTree", 0, payload,
                                [payload EXCEPT !.rootNodes = RootNodes(nodes)],
                                <<>>, <<>>)
        /\ UNCHANGED <<mapVars, registeredStores, isAlreadyInstalled, isTimelineActive,
                       runningActionId, activeAction, handlerApp, stores,
                       wrapped, onActionSubs, subscribeSubs, timeline, stack,
                       pending, invCount, firstAdded>>

\* api.on.getInspectorState
GetInspectorState(req, nodeId) ==
    LET payload == [NoPayload EXCEPT !.app = req.app,
                                     !.inspectorId = req.inspectorId,
                                     !.nodeId = nodeId]
    IN  /\ HandlersRegistered
        /\ IF ~Addressed(payload)
           THEN last' = Request("getInspectorState", 0, payload, payload,
                                <<>>, <<>>)
           ELSE IF ~HasStore(registeredStores, nodeId)
           THEN last' = Request("getInspectorState", 0, payload, payload,
                                   <<>>, <<Toast(NotFoundMessage(nodeId), "error")>>)
           ELSE last' = Request("getInspectorState",
                                registeredStores[nodeId], payload,
                                [payload EXCEPT !.state =
                                   Obj([k \in {"options"} |->
                                          stores[registeredStores[nodeId]]])],
                                <<>>, <<>>)
        /\ UNCHANGED <<mapVars, registeredStores, isAlreadyInstalled, isTimelineActive,
                       runningActionId, activeAction, handlerApp, stores,
                       wrapped, onActionSubs, subscribeSubs, timeline, stack,
                       pending, invCount, firstAdded>>

\* EditOutcome with the path checked before the store
EditOutcomePathFirst(found, validPath) ==
    IF ~validPath THEN "invalid path"
    ELSE IF ~found THEN "not found"
    ELSE "set"

\* what an edit handler does with a request it takes up: the checks in the
\* order of the source
EditOutcome(found, validPath) ==
    IF ~found THEN "not found"
    ELSE IF ~validPath THEN "invalid path"
    ELSE "set"

\* the part the two edit handlers share: look the store up, check the path,
\* rewrite it and set the value with the timeline paused
EditState(op, payload, addressed, storeId) ==
    LET found == HasStore(registeredStores, storeId)
        s == IF found THEN registeredStores[storeId] ELSE 0
        outcome == EditOutcome(found, ValidPath(payload.path))
        path == RewritePath(payload.path)
    IN  /\ HandlersRegistered
        /\ IF ~addressed
           THEN /\ last' = Request(op, 0, payload, payload, <<>>, <<>>)
                /\ UNCHANGED <<stores, timeline, activeAction,
                               isTimelineActive>>
           ELSE IF outcome = "not found"
           THEN /\ last' = Request(op, 0, payload, payload, <<>>, <<Toast(NotFoundMessage(storeId), "error")>>)
                /\ UNCHANGED <<stores, timeline, activeAction,
                               isTimelineActive>>
           ELSE IF outcome = "invalid path"
           THEN /\ last' = Request(op, s, payload, payload, <<>>, <<Toast(InvalidPathMessage(storeId), Undefined)>>)
                /\ UNCHANGED <<stores, timeline, activeAction,
                               isTimelineActive>>
           ELSE /\ SetPaused(s, path, get(payload.state, <<"value">>))
                /\ last' = Request(op, s, payload,
                                   [payload EXCEPT !.path = path],
                                   <<"payload.set">>, <<>>)
        /\ UNCHANGED <<mapVars, registeredStores, isAlreadyInstalled, runningActionId,
                       handlerApp, wrapped, onActionSubs, subscribeSubs,
                       stack, pending, invCount, firstAdded>>

\* api.on.editInspectorState
EditInspectorState(req, nodeId, path, val) ==
    LET payload == [NoPayload EXCEPT !.app = req.app,
                                     !.inspectorId = req.inspectorId,
                                     !.nodeId = nodeId, !.path = path,
                                     !.state = EditValue(val)]
    IN  EditState("editInspectorState", payload, Addressed(payload), nodeId)

\* payload.type.startsWith(the emblem)
StartsWithEmblem(type) == Len(type) > 0 /\ type[1] = Pineapple

RECURSIVE TrimStart(_)
TrimStart(str) ==
    IF str # <<>> /\ Head(str) = " " THEN TrimStart(Tail(str)) ELSE str

\* payload.type.replace(/^emblem\s*/, '')
StripEmblem(type) ==
    IF StartsWithEmblem(type) THEN TrimStart(Tail(type)) ELSE type

\* api.on.editComponentState
EditComponentState(type, path, val) ==
    LET payload == [NoPayload EXCEPT !.type = type, !.path = path,
                                     !.state = EditValue(val)]
    IN  EditState("editComponentState", payload, StartsWithEmblem(type),
                  StripEmblem(type))

\* ------------------------------------------------------ action invocations
\* An invocation: its store, the _actionId the wrapper captured and the
\* group ids the $onAction callbacks closed over.
Invocation(s, name, actionId, hooks) ==
    [store |-> s, name |-> name, actionId |-> actionId, hooks |-> hooks]

\* the get and set traps of trackedStore: activeAction = _actionId
Trap(inv) == inv.actionId

\* store[actionName](...): the wrapper captures runningActionId, the store
\* notifies its $onAction callbacks, and the body starts with the proxy as this
Invoke(s, name, slot) ==
    LET _actionId == runningActionId
        ctx == TriggerOnAction(onActionSubs[s], Ctx, name)
        inv == Invocation(s, name, _actionId, ctx.hooks)
    IN  /\ s \in wrapped
        /\ invCount < MaxCalls
        /\ invCount' = invCount + 1
        /\ runningActionId' = ctx.runningActionId
        /\ timeline' = ctx.timeline
        /\ activeAction' = slot
        /\ stack' = Append(stack, inv)
        /\ last' = Activity(<<>>)
        /\ UNCHANGED <<mapVars, registeredStores, isAlreadyInstalled, isTimelineActive, handlerApp,
                       stores, wrapped, onActionSubs, subscribeSubs, pending,
                       firstAdded>>

\* an action called from outside any action
CallAction(s, name) ==
    /\ stack = <<>>
    /\ Invoke(s, name, activeAction)

\* an action called from the body of another: this.other() reads the
\* property through the proxy, another store's action does not
NestedCall(s, name) ==
    /\ stack # <<>>
    /\ Invoke(s, name,
              IF s = Last(stack).store THEN Trap(Last(stack))
              ELSE activeAction)

\* the body reads a property of this
BodyRead ==
    /\ stack # <<>>
    /\ activeAction' = Trap(Last(stack))
    /\ last' = Activity(<<>>)
    /\ UNCHANGED <<mapVars, registeredStores, isAlreadyInstalled,
                   isTimelineActive, runningActionId, handlerApp, stores,
                   wrapped, onActionSubs, subscribeSubs, timeline, stack,
                   pending, invCount, firstAdded>>

\* a mutation of store s that changes foo to val, with its notification
Mutate(s, slot, val, type) ==
    LET w == WriteStore([Ctx EXCEPT !.activeAction = slot], s,
                        <<"$state", "foo">>, Num(val), type)
    IN  /\ s \in wrapped
        /\ Len(timeline) < MaxTimeline
        /\ get(stores[s], <<"$state", "foo">>) # Num(val)
        /\ stores' = [stores EXCEPT ![s] = w.store]
        /\ timeline' = w.ctx.timeline
        /\ activeAction' = w.ctx.activeAction
        /\ last' = Activity(w.ctx.calls)
        /\ UNCHANGED <<mapVars, registeredStores, isAlreadyInstalled, isTimelineActive, runningActionId,
                       handlerApp, wrapped, onActionSubs, subscribeSubs,
                       stack, pending, invCount, firstAdded>>

\* the body mutates the state through this
BodyWrite(val, type) ==
    /\ stack # <<>>
    /\ Mutate(Last(stack).store, Trap(Last(stack)), val, type)

\* the continuation of an asynchronous action mutates the state through this
ContinuationWrite(inv, val, type) ==
    /\ stack = <<>>
    /\ BagIn(inv, pending)
    /\ Mutate(inv.store, Trap(inv), val, type)

\* a mutation made outside any action, on the store itself
DirectWrite(s, val, type) ==
    /\ stack = <<>>
    /\ Mutate(s, activeAction, val, type)

\* the hooks of an invocation fire: after() on a result, onError() on an error
Settled(tl, inv, outcome) ==
    IF outcome = "error" THEN TriggerOnError(tl, inv.name, inv.hooks)
    ELSE TriggerAfter(tl, inv.name, inv.hooks)

\* the body returns: a value, an error, or a promise
Return(outcome) ==
    LET inv == Last(stack)
    IN  /\ stack # <<>>
        /\ stack' = Front(stack)
        /\ IF outcome = "promise"
           THEN /\ pending' = pending (+) SetToBag({inv})
                /\ UNCHANGED timeline
           ELSE /\ timeline' = Settled(timeline, inv, outcome)
                /\ UNCHANGED pending
        /\ last' = Activity(<<>>)
        /\ UNCHANGED <<mapVars, registeredStores, isAlreadyInstalled, isTimelineActive, runningActionId,
                       activeAction, handlerApp, stores, wrapped, onActionSubs,
                       subscribeSubs, invCount, firstAdded>>

\* the promise of an asynchronous action settles
Settle(inv, outcome) ==
    /\ stack = <<>>
    /\ BagIn(inv, pending)
    /\ pending' = pending (-) SetToBag({inv})
    /\ timeline' = Settled(timeline, inv, outcome)
    /\ last' = Activity(<<>>)
    /\ UNCHANGED <<mapVars, registeredStores, isAlreadyInstalled,
                   isTimelineActive, runningActionId, activeAction, handlerApp,
                   stores, wrapped, onActionSubs, subscribeSubs, stack,
                   invCount, firstAdded>>

\* ============================================================ map helpers
\* Component instances and the pinia each is bound to (vm.$pinia)
Instances == {"vm1", "vm2"}
PiniaOf(vm) == IF vm = "vm1" THEN "pinia1" ELSE "pinia2"

\* A store definition useStore is a function with a fixed $id; what is not
\* a function (the array mapStores is wrongly given) has no $id, and
\* useStore.$id + suffix then starts with "undefined"
Factory(id) == [callable |-> TRUE, id |-> id]
NotAFactory == [callable |-> FALSE, id |-> <<Undefined>>]
Factories == {Factory(id) : id \in StoreIds}

DefaultSuffix == <<"Store">>
Suffixes == {<<>>, DefaultSuffix}

\* the keys of a store: a state property and a getter computed from it
StateKeys == {<<"foo">>}
GetterKeys == {<<"double">>}
ActionKeys == {<<"inc">>, <<"load">>}
ArgLists == {<<>>, <<0, 1>>}

\* useStore(pinia): the factory makes the store of its id for the pinia
UseStore(useStore, pinia) ==
    [id |-> useStore.id, pinia |-> pinia, foo |-> Num(0)]

\* store[key]
ReadKey(store, key) ==
    IF key \in StateKeys THEN store.foo
    ELSE IF key \in GetterKeys THEN Num(2 * store.foo.v)
    ELSE Undef

\* store[key] = value
WriteKey(store, key, val) ==
    IF key \in StateKeys THEN [store EXCEPT !.foo = val] ELSE store

\* What an accessor gives back: a store (by its place in `made`), a value,
\* what a projection function or an action was called with (and so returns),
\* or the TypeError of calling what is not a function
NoResult ==
    [kind |-> "none", store |-> 0, value |-> Undef, this |-> Undefined,
     name |-> <<>>, args |-> <<>>, async |-> FALSE]
StoreResult(ref) == [NoResult EXCEPT !.kind = "store", !.store = ref]
ValueResult(val) == [NoResult EXCEPT !.kind = "value", !.value = val]
Thrown == [NoResult EXCEPT !.kind = "TypeError"]

\* fn.call(this, store): the result of a projection function depends on
\* the store it is given and on the instance it is called on
Project(fn, this, ref, store) ==
    [NoResult EXCEPT !.kind = "projected", !.name = fn, !.this = this,
                     !.store = ref, !.value = store.foo]

\* action(...args), this being the store: what the action returns depends
\* on its arguments; "load" returns a promise
ActionReturn(name, ref, args) ==
    [NoResult EXCEPT !.kind = "returned", !.name = name, !.store = ref,
                     !.args = args, !.async = (name = <<"load">>)]

\* the action "inc" called with arguments sets foo to the last of them
ActionEffect(store, name, args) ==
    IF name = <<"inc">> /\ args # <<>>
    THEN WriteKey(store, <<"foo">>, Num(args[Len(args)]))
    ELSE store

\* vm._pStores: absent, or an object from ids to stores
NoCache == [has |-> FALSE, map |-> NoProps]
Cache(map) == [has |-> TRUE, map |-> map]

\* getCachedStore that asks the factory on every call
getCachedStoreUncached(caches, heap, vm, useStore) ==
    LET cache == IF caches[vm].has THEN caches[vm].map ELSE NoProps
        id == useStore.id
        heap2 == Append(heap, UseStore(useStore, PiniaOf(vm)))
        cache2 == [x \in (DOMAIN cache) \cup {id} |->
                      IF x = id THEN Len(heap2) ELSE cache[x]]
    IN  [pStores |-> [caches EXCEPT ![vm] = Cache(cache2)],
         made |-> heap2, store |-> Len(heap2), threw |-> FALSE]

\* getCachedStore with one cache for all instances
getCachedStoreShared(caches, heap, vm, useStore) ==
    LET cache == IF caches[vm].has THEN caches[vm].map ELSE NoProps
        id == useStore.id
        hit == id \in DOMAIN cache
        heap2 == IF hit THEN heap
                 ELSE Append(heap, UseStore(useStore, PiniaOf(vm)))
        ref == IF hit THEN cache[id] ELSE Len(heap2)
        cache2 == [x \in (DOMAIN cache) \cup {id} |->
                      IF x = id THEN ref ELSE cache[x]]
    IN  [pStores |-> [v \in Instances |-> Cache(cache2)],
         made |-> heap2, store |-> ref, threw |-> FALSE]

\* getCachedStore(vm, useStore): the cache is vm._pStores, made on the
\* first call; cache[id] || (cache[id] = useStore(vm.$pinia))
getCachedStore(caches, heap, vm, useStore) ==
    LET cache == IF caches[vm].has THEN caches[vm].map ELSE NoProps
        id == useStore.id
        hit == id \in DOMAIN cache
        heap2 == IF hit THEN heap
                 ELSE Append(heap, UseStore(useStore, PiniaOf(vm)))
        ref == IF hit THEN cache[id] ELSE Len(heap2)
        cache2 == [x \in (DOMAIN cache) \cup {id} |->
                      IF x = id THEN ref ELSE cache[x]]
    IN  IF hit \/ useStore.callable
        THEN [pStores |-> [caches EXCEPT ![vm] = Cache(cache2)],
              made |-> heap2, store |-> ref, threw |-> FALSE]
        ELSE [pStores |-> [caches EXCEPT ![vm] = Cache(cache)],
              made |-> heap, store |-> 0, threw |-> TRUE]

\* An accessor: the helper and the branch that made it and what its closure
\* holds (useStore, and the key or the function it looks up)
KeyName(name) == [tag |-> "key", name |-> name]
Function(name) == [tag |-> "function", name |-> name]
Accessor(helper, form, useStore, storeKey) ==
    [helper |-> helper, form |-> form, useStore |-> useStore,
     storeKey |-> storeKey]

\* keysOrMapper: an array of keys, or an object from output keys to keys
\* (for mapState, to keys or functions)
ArrayForm(keys) == [array |-> TRUE, keys |-> keys, map |-> NoProps]
ObjectForm(map) == [array |-> FALSE, keys |-> <<>>, map |-> map]

RECURSIVE Reduce(_, _)
\* entries.reduce((reduced, e) => { reduced[key] = accessor; return reduced },
\* {}): a later entry replaces an earlier one of the same key
Reduce(reduced, entries) ==
    IF entries = <<>> THEN reduced
    ELSE LET e == Head(entries)
         IN  Reduce([k \in (DOMAIN reduced) \cup {e.key} |->
                        IF k = e.key THEN e.acc ELSE reduced[k]],
                    Tail(entries))

\* keysOrMapper[key] without the lookup
MappedKeyOwn(map, key) == KeyName(key)

\* keysOrMapper[key]
MappedKey(map, key) == map[key]

\* Accessors with every closure of the array branch holding the last key
AccessorsLastKey(helper, useStore, keysOrMapper) ==
    IF keysOrMapper.array
    THEN Reduce(NoProps,
                [i \in 1 .. Len(keysOrMapper.keys) |->
                    [key |-> keysOrMapper.keys[i],
                     acc |-> Accessor(helper, "array", useStore,
                                      KeyName(Last(keysOrMapper.keys)))]])
    ELSE [key \in DOMAIN keysOrMapper.map |->
             Accessor(helper, "object", useStore,
                      MappedKey(keysOrMapper.map, key))]

\* the two branches every helper but mapStores has: an accessor for each
\* key of the array, or for each key of the object
Accessors(helper, useStore, keysOrMapper) ==
    IF keysOrMapper.array
    THEN Reduce(NoProps,
                [i \in 1 .. Len(keysOrMapper.keys) |->
                    [key |-> keysOrMapper.keys[i],
                     acc |-> Accessor(helper, "array", useStore,
                                      KeyName(keysOrMapper.keys[i]))]])
    ELSE [key \in DOMAIN keysOrMapper.map |->
             Accessor(helper, "object", useStore,
                      MappedKey(keysOrMapper.map, key))]

\* the reduce of mapStores: reduced[useStore.$id + mapStoreSuffix]
StoreAccessors(list, suffix) ==
    Reduce(NoProps,
           [i \in 1 .. Len(list) |->
               [key |-> list[i].id \o suffix,
                acc |-> Accessor("mapStores", "rest", list[i],
                                 KeyName(<<>>))]])

\* mapStores with the suffix it started with
mapStoresDefaultSuffix(args, suffix, dev) ==
    [warned |-> dev /\ args.nested,
     object |-> StoreAccessors(
                   IF ~args.nested \/ dev THEN args.list ELSE <<NotAFactory>>,
                   DefaultSuffix)]

\* mapStores(...stores): args.nested tells that the one argument is an
\* array of stores, which a development build (__DEV__) unwraps with a
\* warning and any other build takes for a store
mapStores(args, suffix, dev) ==
    LET unwrap == dev /\ args.nested
        list == IF unwrap \/ ~args.nested THEN args.list
                ELSE <<NotAFactory>>
    IN  [warned |-> unwrap, object |-> StoreAccessors(list, suffix)]

mapState(useStore, keysOrMapper) ==
    Accessors("mapState", useStore, keysOrMapper)

mapActions(useStore, keysOrMapper) ==
    Accessors("mapActions", useStore, keysOrMapper)

mapWritableState(useStore, keysOrMapper) ==
    Accessors("mapWritableState", useStore, keysOrMapper)

\* fn.call(this, store) with this lost
ThisLost(vm) == Undefined

\* the this of .call(this, store): the instance the accessor runs on
This(vm) == vm

\* (...args) passing the first argument only
ForwardFirst(args) == IF args = <<>> THEN args ELSE <<Head(args)>>

\* (...args): the arguments as they came
Forward(args) == args

\* the setter without its assignment
AssignDropped(heap, ref, name, val) == heap

\* getCachedStore(this, useStore)[key] = value
Assign(heap, ref, name, val) ==
    [heap EXCEPT ![ref] = WriteKey(@, name, val)]

\* store[key] remembered from the store as it was made
ReadStale(heap, ref, name) == ReadKey([heap[ref] EXCEPT !.foo = Num(0)], name)

\* getCachedStore(this, useStore)[key]
Read(heap, ref, name) == ReadKey(heap[ref], name)

\* The body of an accessor run on the instance vm: part tells a getter, a
\* setter or a plain call, args are the arguments of a call and the value
\* of a set
Run(acc, part, vm, args, caches, heap) ==
    LET g == getCachedStore(caches, heap, vm, acc.useStore)
        name == acc.storeKey.name
        out(heap2, result) ==
            [pStores |-> g.pStores, made |-> heap2, result |-> result]
    IN  IF g.threw THEN out(g.made, Thrown)
        ELSE IF acc.helper = "mapStores"
        THEN out(g.made, StoreResult(g.store))
        ELSE IF acc.helper = "mapState"
        THEN IF acc.form = "object" /\ acc.storeKey.tag = "function"
             THEN out(g.made, Project(name, This(vm), g.store, g.made[g.store]))
             ELSE out(g.made, ValueResult(Read(g.made, g.store, name)))
        ELSE IF acc.helper = "mapActions"
        THEN out([g.made EXCEPT ![g.store] =
                     ActionEffect(@, name, Forward(args))],
                 ActionReturn(name, g.store, Forward(args)))
        ELSE IF part = "get"
        THEN out(g.made, ValueResult(Read(g.made, g.store, name)))
        ELSE out(Assign(g.made, g.store, name, Num(args[1])),
                 ValueResult(Num(args[1])))

\* the state of the devtools bridge, which no map helper touches
bridgeVars ==
    <<registeredStores, isAlreadyInstalled, isTimelineActive,
      runningActionId, activeAction, handlerApp, stores, wrapped,
      onActionSubs, subscribeSubs, timeline, stack, pending, invCount,
      firstAdded, last>>

\* what the last map helper operation was and gave
MapOp(op, vm, key, part, args, result, warned) ==
    [op |-> op, vm |-> vm, key |-> key, part |-> part, args |-> args,
     result |-> result, warned |-> warned, given |-> <<>>]

\* setMapStoreSuffix(suffix)
SetMapStoreSuffix(suffix) ==
    /\ mapStoreSuffix' = suffix
    /\ mlast' = MapOp("setMapStoreSuffix", Undefined, suffix, "none", <<>>,
                      NoResult, FALSE)
    /\ UNCHANGED <<pStores, made, component>>
    /\ UNCHANGED bridgeVars

\* a helper call: the caller keeps the object it returns; given are the
\* arguments of the call.  The object is built in each caller, when the
\* call is made: every call of a helper returns a new object
Built(op, given, warned) ==
    /\ mlast' = [MapOp(op, Undefined, <<>>, "none", <<>>, NoResult, warned)
                   EXCEPT !.given = given]
    /\ UNCHANGED <<mapStoreSuffix, pStores, made>>
    /\ UNCHANGED bridgeVars

MapStores(args, dev) ==
    LET r == mapStores(args, mapStoreSuffix, dev)
    IN  /\ component' = r.object
        /\ Built("mapStores", <<args>>, r.warned)

MapState(useStore, keysOrMapper) ==
    /\ component' = mapState(useStore, keysOrMapper)
    /\ Built("mapState", <<useStore, keysOrMapper>>, FALSE)

MapActions(useStore, keysOrMapper) ==
    /\ component' = mapActions(useStore, keysOrMapper)
    /\ Built("mapActions", <<useStore, keysOrMapper>>, FALSE)

MapWritableState(useStore, keysOrMapper) ==
    /\ component' = mapWritableState(useStore, keysOrMapper)
    /\ Built("mapWritableState", <<useStore, keysOrMapper>>, FALSE)

\* an accessor of the object run on an instance
Ran(vm, key, part, args) ==
    LET r == Run(component[key], part, vm, args, pStores, made)
    IN  /\ Len(r.made) <= MaxMade
        /\ pStores' = r.pStores
        /\ made' = r.made
        /\ mlast' = MapOp("access", vm, key, part, args, r.result, FALSE)
        /\ UNCHANGED <<mapStoreSuffix, component>>
        /\ UNCHANGED bridgeVars

\* this.key, for the computed properties of mapStores and mapState
Access(vm, key) ==
    /\ key \in DOMAIN component
    /\ component[key].helper \in {"mapStores", "mapState"}
    /\ Ran(vm, key, "get", <<>>)

\* this.key(...args), for the methods of mapActions
Call(vm, key, args) ==
    /\ key \in DOMAIN component
    /\ component[key].helper = "mapActions"
    /\ Ran(vm, key, "call", args)

\* this.key and this.key = value, for the properties of mapWritableState
Get(vm, key) ==
    /\ key \in DOMAIN component
    /\ component[key].helper = "mapWritableState"
    /\ Ran(vm, key, "get", <<>>)

Set(vm, key, val) ==
    /\ key \in DOMAIN component
    /\ component[key].helper = "mapWritableState"
    /\ Ran(vm, key, "set", <<val>>)

\* ------------------------------------------------------------ specification
Init ==
    /\ registeredStores = NoProps
    /\ isAlreadyInstalled = FALSE
    /\ isTimelineActive = TRUE
    /\ runningActionId = 0
    /\ activeAction = NoAction
    /\ handlerApp = Undefined
    /\ stores = [s \in Stores |-> NewStore]
    /\ wrapped = {}
    /\ onActionSubs = [s \in Stores |-> 0]
    /\ subscribeSubs = [s \in Stores |-> 0]
    /\ timeline = <<>>
    /\ stack = <<>>
    /\ pending = EmptyBag
    /\ invCount = 0
    /\ firstAdded = NoProps
    /\ last = Activity(<<>>)
    /\ mapStoreSuffix = DefaultSuffix
    /\ pStores = [vm \in Instances |-> NoCache]
    /\ made = <<>>
    /\ component = NoProps
    /\ mlast = MapOp("none", Undefined, <<>>, "none", <<>>, NoResult, FALSE)

\* The requests of the host.  A request names the inspector of the app the
\* handlers serve, the inspector of another app, or another plugin's
\* inspector; the last two are sent for a registered store and a valid path.
OwnInspector == [app |-> handlerApp, inspectorId |-> INSPECTOR_ID]

ForeignInspectors ==
    {[app |-> a, inspectorId |-> INSPECTOR_ID] : a \in Apps \ {handlerApp}}
        \cup {[app |-> handlerApp, inspectorId |-> "router"]}

\* filters: none, two that match an id in another case, one that is part of
\* no id
Filters == {<<>>, <<"f">>, <<"O">>, <<"x">>}

TreeRequests ==
    {<<OwnInspector, filter>> : filter \in Filters}
        \cup {<<req, <<>> >> : req \in ForeignInspectors}

StateRequests ==
    {<<OwnInspector, id>> : id \in NodeIds}
        \cup {<<req, StoreId(1)>> : req \in ForeignInspectors}

EditRequests ==
    {<<OwnInspector, id, path>> : id \in {StoreId(1), <<"x">>}, path \in Paths}
        \cup {<<req, StoreId(1), <<"state", "foo">> >> :
                 req \in ForeignInspectors}

\* component state types: of a store, of no store, of a store without the
\* blank after the emblem, and of another plugin
ComponentEdits ==
    {<<(<<Pineapple, " ">> \o StoreId(1)), path>> : path \in Paths}
        \cup {<<type, <<"state", "foo">> >> :
                 type \in {<<Pineapple, " ", "x">>, <<Pineapple>> \o StoreId(3),
                           <<"p", "r", "o", "p", "s">>}}

Next ==
    \/ \E s \in Stores : DevtoolsPlugin(s)
    \/ \E s \in Stores : AddDevtools(s)
    \/ \E r \in TreeRequests : GetInspectorTree(r[1], r[2])
    \/ \E r \in StateRequests : GetInspectorState(r[1], r[2])
    \/ \E r \in EditRequests, val \in EditValues :
          EditInspectorState(r[1], r[2], r[3], val)
    \/ \E r \in ComponentEdits, val \in EditValues :
          EditComponentState(r[1], r[2], val)
    \/ \E s \in Stores, name \in ActionNames : CallAction(s, name)
    \/ \E s \in Stores, name \in ActionNames : NestedCall(s, name)
    \/ BodyRead
    \/ \E val \in Values, type \in MutationTypes : BodyWrite(val, type)
    \/ \E inv \in BagToSet(pending), val \in Values, type \in MutationTypes :
          ContinuationWrite(inv, val, type)
    \/ \E s \in Stores, val \in Values, type \in MutationTypes :
          DirectWrite(s, val, type)
    \/ \E outcome \in {"result", "error", "promise"} : Return(outcome)
    \/ \E inv \in BagToSet(pending), outcome \in {"result", "error"} :
          Settle(inv, outcome)

Spec == Init /\ [][Next]_vars

\* The arguments of the helpers: one store or two, or the array of one
\* store; keys as an array, as the object that maps each key to itself, and
\* as an object with other output keys
StoreLists ==
    {[nested |-> FALSE, list |-> <<Factory(StoreId(1))>>],
     [nested |-> FALSE, list |-> <<Factory(StoreId(3)), Factory(StoreId(1))>>],
     [nested |-> TRUE, list |-> <<Factory(StoreId(3))>>]}

Identity(keys) == [k \in keys |-> KeyName(k)]

StateSelectors ==
    {ArrayForm(<< <<"foo">>, <<"double">> >>),
     ObjectForm(Identity({<<"foo">>, <<"double">>})),
     ObjectForm([k \in {<<"n">>, <<"p">>} |->
                    IF k = <<"n">> THEN KeyName(<<"foo">>)
                    ELSE Function(<<"own">>)])}

ActionSelectors ==
    {ArrayForm(<< <<"inc">>, <<"load">> >>),
     ObjectForm(Identity({<<"inc">>, <<"load">>})),
     ObjectForm([k \in {<<"go">>} |-> KeyName(<<"inc">>)])}

WritableSelectors ==
    {ArrayForm(<< <<"foo">> >>),
     ObjectForm(Identity({<<"foo">>})),
     ObjectForm([k \in {<<"n">>} |-> KeyName(<<"foo">>)])}

MapNext ==
    \/ \E suffix \in Suffixes : SetMapStoreSuffix(suffix)
    \/ \E args \in StoreLists, dev \in BOOLEAN : MapStores(args, dev)
    \/ \E useStore \in Factories, sel \in StateSelectors :
          MapState(useStore, sel)
    \/ \E useStore \in Factories, sel \in ActionSelectors :
          MapActions(useStore, sel)
    \/ \E useStore \in Factories, sel \in WritableSelectors :
          MapWritableState(useStore, sel)
    \/ \E vm \in Instances, key \in DOMAIN component : Access(vm, key)
    \/ \E vm \in Instances, key \in DOMAIN component, args \in ArgLists :
          Call(vm, key, args)
    \/ \E vm \in Instances, key \in DOMAIN component : Get(vm, key)
    \/ \E vm \in Instances, key \in DOMAIN component, val \in Values :
          Set(vm, key, val)

MapSpec == Init /\ [][MapNext]_vars

\* ------------------------------------------------------------------ claims
\* the store the registry holds under its id
Registered(s) ==
    StoreId(s) \in DOMAIN registeredStores /\ registeredStores[StoreId(s)] = s

StartsOf(tl) == {i \in 1 .. Len(tl) : IsStart(tl[i])}
EndsOf(tl) == {i \in 1 .. Len(tl) : IsEnd(tl[i])}
MutationsOf(tl) == {i \in 1 .. Len(tl) : IsMutation(tl[i])}

\* steps of the application, told by what they change
Invoked == Len(stack') = Len(stack) + 1
Returned == stack # <<>> /\ stack' = Front(stack) /\ pending' = pending
SettledNow(inv) ==
    BagIn(inv, pending) /\ pending' = pending (-) SetToBag({inv})
Mutated(s) == last'.op = "activity" /\ stores'[s] # stores[s]

EditOps == {"editInspectorState", "editComponentState"}

\* the store id a request names: the node id, or what follows the emblem and
\* the blanks of the component state type
NamedIds(req) ==
    IF req.op = "editComponentState"
    THEN {id \in NodeIds : \/ req.input.type = <<Pineapple>> \o id
                          \/ req.input.type = <<Pineapple, " ">> \o id}
    ELSE {req.input.nodeId}

\* the request is one the handler takes up: it names the bridge's inspector
\* of the app the handlers serve, or a component state type of the bridge
TakenUp(req) ==
    IF req.op = "editComponentState"
    THEN req.input.type # <<>> /\ req.input.type[1] = Pineapple
    ELSE req.input.app = handlerApp /\ req.input.inspectorId = INSPECTOR_ID

StartsWithState(path) == path # <<>> /\ path[1] = "state"

RECURSIVE SumOver(_, _)
SumOver(f, S) ==
    IF S = {} THEN 0
    ELSE LET x == CHOOSE y \in S : TRUE IN f[x] + SumOver(f, S \ {x})

SubsUnder(subs, id) == SumOver(subs, {s \in Stores : StoreId(s) = id})

\* C1: every action invocation on a store the bridge set up emits one
\* "start" event, and when its hook fires one end event follows that carries
\* the group id of that start event.
C1_StartAndEndPerInvocation ==
    [][/\ (Invoked /\ Registered(Last(stack').store))
            => Cardinality(StartsOf(timeline')) =
                  Cardinality(StartsOf(timeline)) + 1
       /\ (\/ Returned /\ Registered(Last(stack).store)
           \/ \E inv \in BagToSet(pending) :
                 SettledNow(inv) /\ Registered(inv.store))
            => /\ Cardinality(EndsOf(timeline')) =
                     Cardinality(EndsOf(timeline)) + 1
               /\ \E i \in StartsOf(timeline) :
                     timeline[i].groupId = Last(timeline').groupId]_vars

\* C2: a state change of a registered store while the timeline is active
\* makes the bridge call notifyComponentUpdate and sendInspectorState and
\* append exactly one mutation event; while it is paused none is appended.
C2_MutationRecorded ==
    [][\A s \in Stores :
          (Mutated(s) /\ Registered(s))
            => IF isTimelineActive
               THEN /\ Len(timeline') = Len(timeline) + 1
                    /\ IsMutation(Last(timeline'))
                    /\ last'.calls =
                          <<"notifyComponentUpdate", "sendInspectorState">>
               ELSE timeline' = timeline]_vars

\* C3: the registry holds one entry for each id addDevtools was given, the
\* first store given under that id, and the stores of one id carry at most
\* one $onAction and one $subscribe callback of the bridge between them.
C3_OneEntryPerId ==
    /\ DOMAIN registeredStores = {StoreId(s) : s \in wrapped}
    /\ \A id \in DOMAIN registeredStores :
          /\ StoreId(registeredStores[id]) = id
          /\ registeredStores[id] = firstAdded[id]
    /\ \A id \in StoreIds :
          /\ SubsUnder(onActionSubs, id) <= 1
          /\ SubsUnder(subscribeSubs, id) <= 1

\* addDevtools was given both stores of one id, the second of them first,
\* and then a store it had been given before
C3_Witness ==
    /\ wrapped = Stores
    /\ registeredStores[StoreId(2)] = 2
    /\ last.op = "addDevtools"
    /\ last.calls = RefreshCalls
    /\ last.store = 2

\* C4: an edit request the handler takes up, for a registered store and a
\* path that starts with "state", sets the value at the rest of the path of
\* the store's $state through the host's setter, and no timeline event is
\* added.
C4_EditApplied ==
    [][(/\ last'.op \in EditOps
        /\ TakenUp(last')
        /\ StartsWithState(last'.input.path))
          => \A id \in NamedIds(last') \cap DOMAIN registeredStores :
                /\ last'.calls = <<"payload.set">>
                /\ get(stores'[registeredStores[id]],
                       <<"$state">> \o Tail(last'.input.path))
                     = get(last'.input.state, <<"value">>)
                /\ timeline' = timeline]_vars

\* a component state edit has set foo of a registered store
C4_Witness ==
    /\ last.op = "editComponentState"
    /\ last.calls = <<"payload.set">>
    /\ last.store \in Stores
    /\ get(stores[last.store], <<"$state", "foo">>) = Num(1)

\* C5: an edit request the handler takes up, for a registered store and a
\* path that does not start with "state", is reported by one toastMessage
\* call naming the invalid path; the host's setter is not called, and the
\* stores, the path and the timeline-active flag stay as they were.
C5_InvalidPathRejected ==
    [][(/\ last'.op \in EditOps
        /\ TakenUp(last')
        /\ ~StartsWithState(last'.input.path))
          => \A id \in NamedIds(last') \cap DOMAIN registeredStores :
                /\ Len(last'.reports) = 1
                /\ last'.reports[1].message = InvalidPathMessage(id)
                /\ last'.calls = <<>>
                /\ stores' = stores
                /\ last'.payload.path = last'.input.path
                /\ isTimelineActive' = isTimelineActive]_vars

\* an inspector edit of a registered store with the path options.foo was
\* reported
C5_Witness ==
    /\ last.op = "editInspectorState"
    /\ last.input.path = <<"options", "foo">>
    /\ last.input.nodeId \in DOMAIN registeredStores
    /\ Len(last.reports) = 1

\* C6: a state or edit request the handler takes up that names an id the
\* registry does not hold is reported by one toastMessage call "not found"
\* of type error, which reaches the host or the console as an error; the
\* payload's state stays as it was sent (unset for a state request) and no
\* store is written.
C6_StoreNotFound ==
    [][(/\ last'.op \in EditOps \cup {"getInspectorState"}
        /\ TakenUp(last'))
          => \A id \in NamedIds(last') \ DOMAIN registeredStores :
                /\ last'.reports = <<Toast(NotFoundMessage(id), "error")>>
                /\ \A host \in BOOLEAN :
                      LET r == toastMessage(last'.reports[1].message,
                                            last'.reports[1].type, host)
                      IN  /\ r.type = "error"
                          /\ r.channel \in {"toast", "console.error"}
                /\ last'.payload.state = last'.input.state
                /\ last'.op = "getInspectorState"
                     => last'.payload.state = Undef
                /\ last'.calls = <<>>
                /\ stores' = stores]_vars

\* a state request for an id of no store was reported, its state left unset
C6_Witness ==
    /\ last.op = "getInspectorState"
    /\ last.input.nodeId \notin DOMAIN registeredStores
    /\ Len(last.reports) = 1
    /\ last.payload.state = Undef

\* C7: a mutation made through this in the body of an action of a
\* registered store is emitted as a mutation event whose group id is the one
\* of the "start" event of that invocation.
C7_MutationAttributed ==
    [][(/\ stack # <<>>
        /\ stack' = stack
        /\ Mutated(Last(stack).store)
        /\ Registered(Last(stack).store))
          => /\ Len(timeline') = Len(timeline) + 1
             /\ IsMutation(Last(timeline'))
             /\ Last(stack).hooks # <<>>
             /\ Last(timeline').groupId = Last(stack).hooks[1]]_vars

\* C8: runningActionId never decreases, every invocation on a store the
\* bridge set up takes its value as group id and increases it by one, and no
\* two "start" events carry the same group id.
C8_FreshCorrelationId ==
    [][/\ runningActionId' >= runningActionId
       /\ (Invoked /\ Registered(Last(stack').store))
            => /\ runningActionId' = runningActionId + 1
               /\ Last(stack').hooks = <<runningActionId>>
       /\ \A i, j \in StartsOf(timeline') :
             timeline'[i].groupId = timeline'[j].groupId => i = j]_vars

\* C9: when the hook of an invocation on a store the bridge set up fires,
\* the end event it emits comes after the "start" event with its group id,
\* and every end event has an earlier "start" event with its group id.
C9_StartBeforeEnd ==
    [][/\ \A j \in EndsOf(timeline') :
             \E i \in StartsOf(timeline') :
                i < j /\ timeline'[i].groupId = timeline'[j].groupId
       /\ ((\/ Returned /\ Registered(Last(stack).store)
            \/ \E inv \in BagToSet(pending) :
                  SettledNow(inv) /\ Registered(inv.store))
            => /\ timeline' # <<>>
               /\ IsEnd(Last(timeline'))
               /\ \E i \in StartsOf(timeline) :
                     timeline[i].groupId = Last(timeline').groupId)]_vars

\* C10: a mutation of a registered store made while no action body runs
\* (outside any action, or in the continuation of an asynchronous action)
\* is emitted as a mutation event with no group id.
C10_UntrackedMutationUngrouped ==
    [][\A s \in Stores :
          (stack = <<>> /\ Mutated(s) /\ Registered(s))
            => /\ Len(timeline') = Len(timeline) + 1
               /\ IsMutation(Last(timeline'))
               /\ Last(timeline').groupId = NoAction]_vars

\* the apps addDevtools has been given so far
AppsSetUp == {AppOf(s) : s \in wrapped}

\* C11: the first addDevtools call for an app registers the timeline layer,
\* the inspector and the five handlers, each once, and every later call for
\* that app registers nothing and sends the inspector tree and the inspector
\* state instead.
C11_SetupOncePerApp ==
    [][last'.op = "addDevtools"
         => IF last'.arg \in AppsSetUp
            THEN last'.calls = RefreshCalls
            ELSE last'.calls = InstallCalls]_vars

\* two letters that differ at most in case
SameLetter(a, b) ==
    \/ a = b
    \/ {a, b} \in {{"F", "f"}, {"O", "o"}, {"B", "b"}, {"X", "x"}}

\* sub occurs in str when case is ignored
ContainsIgnoringCase(str, sub) ==
    \E i \in 0 .. Len(str) - Len(sub) :
       \A k \in 1 .. Len(sub) : SameLetter(str[i + k], sub[k])

\* C17: a tree request the handler takes up gets as root nodes one node for
\* each registered store whose id, lower-cased, contains the lower-cased
\* filter, and with no filter one node for each registered store.
C17_TreeFiltered ==
    [][(last'.op = "getInspectorTree" /\ TakenUp(last'))
         => /\ last'.payload.rootNodes.set
            /\ \A id \in StoreIds :
                  LET node == [id |-> id, label |-> id]
                      wanted ==
                          /\ id \in DOMAIN registeredStores
                          /\ \/ last'.input.filter = <<>>
                             \/ ContainsIgnoringCase(id,
                                                     last'.input.filter)
                  IN  CopiesIn(node, last'.payload.rootNodes.nodes)
                         = IF wanted THEN 1 ELSE 0
            /\ \A node \in BagToSet(last'.payload.rootNodes.nodes) :
                  node.id \in StoreIds]_vars

\* with both ids registered, the filter "O" kept the store "Fo" alone
C17_Witness ==
    /\ last.op = "getInspectorTree"
    /\ last.input.filter = <<"O">>
    /\ DOMAIN registeredStores = StoreIds
    /\ BagToSet(last.payload.rootNodes.nodes)
          = {[id |-> <<"F", "o">>, label |-> <<"F", "o">>]}

\* C19: an edit request the handler takes up, for a registered store and a
\* path that does not start with "state", is reported by a toastMessage call
\* of type warning, which reaches the host's toast as a warning or the
\* console as console.warn.
C19_InvalidPathWarned ==
    [][(/\ last'.op \in EditOps
        /\ TakenUp(last')
        /\ ~StartsWithState(last'.input.path))
          => \A id \in NamedIds(last') \cap DOMAIN registeredStores :
                /\ Len(last'.reports) = 1
                /\ \A host \in BOOLEAN :
                      LET r == toastMessage(last'.reports[1].message,
                                            last'.reports[1].type, host)
                      IN  /\ r.type = "warning"
                          /\ r.channel \in {"toast", "console.warn"}]_vars

\* the timeline-active flag as the handlers leave it
FlagRestored == isTimelineActive = TRUE

\* C20: the timeline-active flag is true whenever no edit handler is
\* running, whichever way the last edit handler returned, and so the first
\* mutation of a registered store the application makes after an edit
\* request is recorded on the timeline.
C20_FlagTrueOutsideEdits ==
    [][/\ FlagRestored /\ FlagRestored'
       /\ \A s \in Stores :
             (last.op \in EditOps /\ Mutated(s) /\ Registered(s))
               => /\ Len(timeline') = Len(timeline) + 1
                  /\ IsMutation(Last(timeline'))]_vars

\* ----------------------------------------------------- map helper claims
\* the store objects a factory made for an instance
MadeFor(heap, vm, id) ==
    {i \in 1 .. Len(heap) : heap[i].id = id /\ heap[i].pinia = PiniaOf(vm)}

\* the cache entries of an instance
Cached(caches, vm) == DOMAIN caches[vm].map

\* the last operation ran an accessor of the given helper to its end
Accessed(op, helper) ==
    /\ op.op = "access"
    /\ op.result.kind # "TypeError"
    /\ op.key \in DOMAIN component
    /\ component[op.key].helper = helper

\* C12: a factory is called at most once for an instance and a store id,
\* an entry of an instance's cache never changes once made, and a store
\* accessor gives the store the instance's cache holds for the id.
C12_StoreMadeOncePerInstance ==
    [][/\ \A vm \in Instances, id \in StoreIds :
             Cardinality(MadeFor(made', vm, id)) <= 1
       /\ \A vm \in Instances :
             \A id \in Cached(pStores, vm) :
                /\ id \in Cached(pStores', vm)
                /\ pStores'[vm].map[id] = pStores[vm].map[id]
       /\ Accessed(mlast', "mapStores")
            => LET id == component[mlast'.key].useStore.id
               IN  /\ id \in Cached(pStores', mlast'.vm)
                   /\ mlast'.result.store = pStores'[mlast'.vm].map[id]
                   /\ mlast'.result.store \in MadeFor(made', mlast'.vm, id)]_vars

\* a store accessor gave the first store made again after a second store
\* had been made
C12_Witness ==
    /\ mlast.op = "access"
    /\ mlast.result.kind = "store"
    /\ mlast.result.store = 1
    /\ Len(made) = 2

\* the store an instance's cache holds for the factory of an accessor
CachedStore(caches, vm, key) == caches[vm].map[component[key].useStore.id]

\* what the selectors of mapState ask for under an output key: the key
\* itself, but foo under "n" and the function own under "p"
AskedKey(key) == IF key = <<"n">> THEN <<"foo">> ELSE key
AskedFunction(key) == key = <<"p">>

\* the value of a state key or a getter of a store, as the store defines it
ValueOf(store, key) ==
    IF key = <<"foo">> THEN store.foo
    ELSE IF key = <<"double">> THEN Num(2 * store.foo.v)
    ELSE Undef

\* C13: a mapState accessor for a key gives the value the key has now on
\* the store the calling instance's cache holds, an accessor for a function
\* gives what the function returns for that store with the instance as
\* this, and reading writes no store.
C13_StateRead ==
    [][Accessed(mlast', "mapState")
         => LET vm == mlast'.vm
                ref == CachedStore(pStores', vm, mlast'.key)
            IN  /\ IF AskedFunction(mlast'.key)
                   THEN mlast'.result
                           = Project(<<"own">>, vm, ref, made'[ref])
                   ELSE mlast'.result
                           = ValueResult(ValueOf(made'[ref],
                                                 AskedKey(mlast'.key)))
                /\ \A i \in 1 .. Len(made) : made'[i] = made[i]]_vars

\* the function of a mapState accessor was given, on vm2, a store whose foo
\* had been set to 1
C13_Witness ==
    /\ mlast.op = "access"
    /\ mlast.result.kind = "projected"
    /\ mlast.result.this = "vm2"
    /\ mlast.result.value = Num(1)

\* C14: the set of a mapWritableState accessor, called with a value on an
\* instance, writes the value to the state key of the store the instance's
\* cache holds, and a get of the same accessor on the same instance right
\* after it returns that value.
C14_WritableSetThenGet ==
    [][Accessed(mlast', "mapWritableState")
         => LET vm == mlast'.vm
                ref == CachedStore(pStores', vm, mlast'.key)
            IN  /\ mlast'.part = "set"
                     => /\ made'[ref].foo = Num(mlast'.args[1])
                        /\ \A i \in 1 .. Len(made) :
                              i # ref => made'[i] = made[i]
                /\ (/\ mlast'.part = "get"
                    /\ mlast.op = "access" /\ mlast.part = "set"
                    /\ mlast.vm = vm /\ mlast.key = mlast'.key)
                     => mlast'.result = ValueResult(Num(mlast.args[1]))]_vars

\* a setter run on vm2 has written 1 to foo of the store vm2 holds
C14_Witness ==
    /\ mlast.op = "access"
    /\ mlast.part = "set"
    /\ mlast.vm = "vm2"
    /\ mlast.args = <<1>>
    /\ made[CachedStore(pStores, "vm2", mlast.key)].foo = Num(1)

\* the ids of the store definitions a mapStores call was given
GivenIds(given) == {given[1].list[i].id : i \in 1 .. Len(given[1].list)}

\* C15: mapStores given store definitions returns one accessor for each,
\* under the definition's id followed by the suffix in force at the call,
\* which is "Store" until setMapStoreSuffix is called; setMapStoreSuffix
\* sets the suffix and leaves the objects returned before as they are; and
\* each accessor gives the store the calling instance's cache holds for
\* its definition.
C15_StoreAccessorKeys ==
    [][/\ mlast.op = "none" => mapStoreSuffix = <<"Store">>
       /\ (mlast'.op = "mapStores" /\ ~mlast'.given[1].nested)
            => /\ DOMAIN component'
                    = {id \o mapStoreSuffix : id \in GivenIds(mlast'.given)}
               /\ Cardinality(DOMAIN component')
                    = Cardinality(GivenIds(mlast'.given))
               /\ \A id \in GivenIds(mlast'.given) :
                     component'[id \o mapStoreSuffix].useStore.id = id
               /\ mapStoreSuffix' = mapStoreSuffix
       /\ mlast'.op = "setMapStoreSuffix"
            => /\ mapStoreSuffix' = mlast'.key
               /\ component' = component
       /\ mlast'.op # "setMapStoreSuffix" => mapStoreSuffix' = mapStoreSuffix
       /\ Accessed(mlast', "mapStores")
            => mlast'.result
                  = StoreResult(CachedStore(pStores', mlast'.vm, mlast'.key))]_vars

\* an accessor built as "b" under the empty suffix gave vm1 its store
C15_Witness ==
    /\ mlast.op = "access"
    /\ mlast.key = <<"b">>
    /\ mlast.vm = "vm1"
    /\ mlast.result.kind = "store"
    /\ DOMAIN component = {<<"b">>, <<"F", "o">>}

\* the action the selectors of mapActions ask for under an output key: the
\* key itself, but inc under "go"
AskedAction(key) == IF key = <<"go">> THEN <<"inc">> ELSE key

\* a store as it was before a step, new when the step made it
Before(ref) ==
    IF ref <= Len(made) THEN made[ref] ELSE [made'[ref] EXCEPT !.foo = Num(0)]

\* C16: a mapActions callable (array or object form) calls the action it
\* names on the store the calling instance's cache holds, with the
\* arguments it was given in their order, and returns what that call
\* returns, a promise included.
C16_ActionForwarded ==
    [][Accessed(mlast', "mapActions")
         => LET ref == CachedStore(pStores', mlast'.vm, mlast'.key)
                name == AskedAction(mlast'.key)
            IN  /\ mlast'.result = ActionReturn(name, ref, mlast'.args)
                /\ made'[ref] = ActionEffect(Before(ref), name, mlast'.args)
                /\ \A i \in 1 .. Len(made) :
                      i # ref => made'[i] = made[i]]_vars

\* the action load, called with two arguments, returned its promise
C16_Witness ==
    /\ mlast.op = "access"
    /\ mlast.part = "call"
    /\ mlast.args = <<0, 1>>
    /\ mlast.result.kind = "returned"
    /\ mlast.result.name = <<"load">>
    /\ mlast.result.async
    /\ mlast.result.args = <<0, 1>>

BuildOps == {"mapStores", "mapState", "mapActions", "mapWritableState"}

SlotValues ==
    {activeAction}
        \cup {stack[i].actionId : i \in 1 .. Len(stack)}
        \cup {inv.actionId : inv \in BagToSet(pending)}

KeyLists(helper) ==
    IF helper = "mapState" THEN {<< <<"foo">>, <<"double">> >>, << <<"double">> >>}
    ELSE IF helper = "mapActions" THEN {<< <<"inc">>, <<"load">> >>}
    ELSE {<< <<"foo">> >>}

Uses(helper) ==
    IF helper = "mapState" THEN {<<"get", <<>> >>}
    ELSE IF helper = "mapActions" THEN {<<"call", args>> : args \in ArgLists}
    ELSE {<<"get", <<>> >>} \cup {<<"set", <<val>> >> : val \in Values}

\* what a helper returns for its arguments
Helper(helper, useStore, keysOrMapper) ==
    IF helper = "mapState" THEN mapState(useStore, keysOrMapper)
    ELSE IF helper = "mapActions" THEN mapActions(useStore, keysOrMapper)
    ELSE mapWritableState(useStore, keysOrMapper)

\* C22: for mapState, mapActions and mapWritableState, the object returned
\* for an array of keys and the one returned for the object mapping each of
\* these keys to itself have the same keys, and under each key the two
\* accessors, run on any instance in any state the stores and caches can be
\* in, return the same result and leave the same caches and stores.
C22_ArrayAndObjectFormsAgree ==
    \A helper \in {"mapState", "mapActions", "mapWritableState"},
       useStore \in Factories :
       \A keys \in KeyLists(helper) :
          LET names == {keys[i] : i \in 1 .. Len(keys)}
              fromArray ==
                  Helper(helper, useStore,
                         [array |-> TRUE, keys |-> keys, map |-> <<>>])
              fromObject ==
                  Helper(helper, useStore,
                         [array |-> FALSE, keys |-> <<>>,
                          map |-> [k \in names |->
                                      [tag |-> "key", name |-> k]]])
          IN  /\ DOMAIN fromArray = names
              /\ DOMAIN fromObject = names
              /\ \A k \in names, vm \in Instances, use \in Uses(helper) :
                    Run(fromArray[k], use[1], vm, use[2], pStores, made)
                       = Run(fromObject[k], use[1], vm, use[2], pStores, made)

\* an accessor of the array form has read, on vm2, a getter of a store
\* whose foo had been set to 1, while another store exists
C22_Witness ==
    /\ mlast.op = "access"
    /\ mlast.key = <<"double">>
    /\ component[mlast.key].form = "array"
    /\ mlast.vm = "vm2"
    /\ mlast.result.value = Num(2)
    /\ Len(made) = 2
====
